---- MODULE Spec2Model ----
(***************************************************************************)
(* Ukkonen's online suffix-tree construction and its substring query,      *)
(* modelled from src/ukkonen.py.                                           *)
(*                                                                         *)
(* The text is 0-indexed in the source; TLA+ sequences are 1-indexed, so   *)
(* TextAt(i) reads text[i] of the source.  Nodes live in an arena (the     *)
(* sequence nodes); node 1 is the root and 0 stands for None.              *)
(***************************************************************************)
EXTENDS Integers, Sequences, FiniteSets, TLC

\* ------------------------------------------------------------------ bounds
MaxLen == 5
MaxPatLen == 5
MaxCalls == 2

Sigma == {"a", "b", "c"}

\* "None" as a symbol source (SuffixTree(None))
NoneText == <<"None">>

SeqsUpTo(S, n) == UNION {[1..k -> S] : k \in 0..n}
Texts == SeqsUpTo(Sigma, MaxLen)
Patterns == SeqsUpTo(Sigma, MaxPatLen)

VARIABLES
    text,               \* self.text
    nodes,              \* arena of Node objects: children, suffix_link
    endv,               \* self.end.value, the shared open end
    active_node,        \* self.active_node
    active_edge,        \* self.active_edge
    active_length,      \* self.active_length
    remainder,          \* self.remainder
    last_created_node,  \* self.last_created_node (0 = None)
    pos,                \* loop variable i of build / argument of extend
    pc,                 \* control position
    built,              \* the constructor has returned
    calls,              \* number of calls of extend made after construction
    work,               \* iterations of the extension loop, by branch
    pattern,            \* argument of the has_substring call in progress
    qres,               \* what that call returns (or raises)
    naive               \* arena of SuffixTreeNode objects (NaiveSuffixTree)

tree == <<nodes, endv>>
active_point == <<active_node, active_edge, active_length>>
engine == <<nodes, endv, active_node, active_edge, active_length, remainder,
            last_created_node>>
query == <<pattern, qres>>
vars == <<text, nodes, endv, active_node, active_edge, active_length,
          remainder, last_created_node, pos, pc, built, calls, work,
          pattern, qres, naive>>

\* ------------------------------------------------------------ data model
root == 1
None == 0

NoEdge == [start |-> -1, shared |-> FALSE, value |-> -1, child |-> None]

\* Node(): children = {}, suffix_link = None
Node == [children |-> [c \in Sigma |-> NoEdge], suffix_link |-> None]

\* a leaf edge whose end is a copy of the open end's current value
LeafEdge_by_value(start, child) ==
    [start |-> start, shared |-> FALSE, value |-> endv, child |-> child]

\* a leaf edge that leads back to the root instead of the new leaf
LeafEdge_to_root(start, child) ==
    [start |-> start, shared |-> TRUE, value |-> -1, child |-> root]

\* an edge tuple (start, end, child); end is self.end (shared) or a fresh End
LeafEdge(start, child) ==
    [start |-> start, shared |-> TRUE, value |-> -1, child |-> child]

\* an edge that is cut but keeps following the open end
FixedEdge_tracking_open_end(start, v, child) ==
    [start |-> start, shared |-> TRUE, value |-> v, child |-> child]

FixedEdge(start, v, child) ==
    [start |-> start, shared |-> FALSE, value |-> v, child |-> child]

\* end.value of an edge's End object
EndValue(e) == IF e.shared THEN endv ELSE e.value

edge_length(e) == EndValue(e) - e.start + 1

HasChild(n, ch) == ch \in Sigma /\ nodes[n].children[ch].child # None

n_text == Len(text)

\* Python indexing of self.text: negative indices count from the end
CanIndex(i) == -n_text <= i /\ i < n_text
TextAt(i) == IF i >= 0 THEN text[i + 1] ELSE text[n_text + i + 1]

\* ------------------------------------------------------------------ init
Init ==
    /\ text \in Texts \cup {NoneText}
    /\ nodes = <<Node>>
    /\ endv = -1
    /\ active_node = root
    /\ active_edge = -1
    /\ active_length = 0
    /\ remainder = 0
    /\ last_created_node = None
    /\ pos = -1
    /\ pc = "build"
    /\ built = FALSE
    /\ calls = 0
    /\ work = [ext |-> 0, skip |-> 0, show |-> 0]
    /\ pattern = <<>>
    /\ qres = "none"
    /\ naive = <<>>

\* ---------------------------------------------------------- construction
\* where control goes when extend returns
AfterExtend == IF built THEN "done" ELSE "build"

\* range(len(self.text)), line 137: the number of phases build runs
build_range_off_by_one == n_text + 1

build_range == n_text

\* build: len(None) raises TypeError
BuildTypeError ==
    /\ pc = "build"
    /\ text = NoneText
    /\ pc' = "TypeError"
    /\ UNCHANGED <<naive, text, engine, pos, built, calls, work, query>>

\* line 68: self.end.value += 1
end_not_advanced == endv

end_advanced == endv + 1

\* line 69: self.remainder += 1
remainder_not_incremented == remainder

remainder_incremented_twice == remainder + 2

remainder_incremented == remainder + 1

\* extend, lines 68-70, called from build with the next i
StartPhase ==
    /\ pc = "build"
    /\ text # NoneText
    /\ pos + 1 < build_range
    /\ pos' = pos + 1
    /\ endv' = end_advanced
    /\ remainder' = remainder_incremented
    /\ last_created_node' = None
    /\ pc' = IF remainder' > 0 THEN "extend" ELSE AfterExtend
    /\ UNCHANGED <<naive, text, nodes, active_point, built, calls, work, query>>

\* build treating an absent text like the empty one
FinishBuild_none_as_empty ==
    /\ pc = "build"
    /\ (text = NoneText \/ pos + 1 >= build_range)
    /\ pc' = "done"
    /\ built' = TRUE
    /\ UNCHANGED <<naive, text, engine, pos, calls, work, query>>

\* build's loop is exhausted and the constructor returns
FinishBuild ==
    /\ pc = "build"
    /\ text # NoneText
    /\ pos + 1 >= build_range
    /\ pc' = "done"
    /\ built' = TRUE
    /\ UNCHANGED <<naive, text, engine, pos, calls, work, query>>

\* lines 74-77: active_edge after the test of active_length, and ch
CurEdge_not_reset == active_edge

CurEdge == IF active_length = 0 THEN pos ELSE active_edge
CurCh == TextAt(CurEdge)
CurE == nodes[active_node].children[CurCh]

\* line 122: self.remainder -= 1
remainder_kept == remainder

remainder_decremented == remainder - 1

\* line 128: self.active_edge = pos - self.remainder + 1
next_active_edge_one_early(r) == pos - r

next_active_edge(r) == pos - r + 1

\* lines 122-133 for a given tree: decrement and active point update
AfterExtension(ns, ae) ==
    /\ remainder' = remainder_decremented
    /\ IF active_node = root /\ active_length > 0
       THEN /\ active_length' = active_length - 1
            /\ active_edge' = next_active_edge(remainder')
            /\ active_node' = active_node
       ELSE /\ active_node' = IF ns[active_node].suffix_link # None
                              THEN ns[active_node].suffix_link
                              ELSE root
            /\ active_edge' = ae
            /\ active_length' = active_length
    /\ pc' = IF remainder' > 0 THEN "extend" ELSE AfterExtend

\* lines 86-88 / 102-104: pending suffix link goes to the active node
LinkPending_to_root(ns) ==
    IF last_created_node # None
    THEN [ns EXCEPT ![last_created_node].suffix_link = root]
    ELSE ns

LinkPending(ns) ==
    IF last_created_node # None
    THEN [ns EXCEPT ![last_created_node].suffix_link = active_node]
    ELSE ns

\* line 88: self.last_created_node = None
marker_left == last_created_node

marker_cleared == None

\* CASE 1, lines 80-88 and 122-133
NewLeaf ==
    /\ pc = "extend"
    /\ CanIndex(CurEdge)
    /\ ~HasChild(active_node, CurCh)
    /\ LET leaf == Len(nodes) + 1
           n1 == Append(nodes, Node)
           n2 == [n1 EXCEPT ![active_node].children[CurCh] = LeafEdge(pos, leaf)]
           n3 == LinkPending(n2)
       IN  /\ nodes' = n3
           /\ AfterExtension(n3, CurEdge)
    /\ last_created_node' = marker_cleared
    /\ work' = [work EXCEPT !.ext = @ + 1]
    /\ UNCHANGED <<naive, text, endv, pos, built, calls, query>>

\* line 54: the symbols of active_length that walk_down consumes
walked_none(e) == 0

walked(e) == edge_length(e)

\* walk_down, lines 50-57, and the continue of line 95
walk_down ==
    /\ pc = "extend"
    /\ CanIndex(CurEdge)
    /\ HasChild(active_node, CurCh)
    /\ active_length >= edge_length(CurE)
    /\ active_edge' = CurEdge + edge_length(CurE)
    /\ active_length' = active_length - walked(CurE)
    /\ active_node' = CurE.child
    /\ work' = [work EXCEPT !.skip = @ + 1]
    /\ UNCHANGED <<naive, text, nodes, endv, remainder, last_created_node, pos, pc,
                   built, calls, query>>

\* line 105: break leaves the loop, so extend returns
showstopper_continues == "extend"

showstopper_break == AfterExtend

\* CASE 2, lines 98-105
Showstopper ==
    /\ pc = "extend"
    /\ CanIndex(CurEdge)
    /\ HasChild(active_node, CurCh)
    /\ active_length < edge_length(CurE)
    /\ CanIndex(CurE.start + active_length)
    /\ TextAt(CurE.start + active_length) = TextAt(pos)
    /\ active_length' = active_length + 1
    /\ active_edge' = CurEdge
    /\ nodes' = LinkPending(nodes)
    /\ last_created_node' = None
    /\ pc' = showstopper_break
    /\ work' = [work EXCEPT !.show = @ + 1]
    /\ UNCHANGED <<naive, text, endv, active_node, remainder, pos, built, calls,
                   query>>

\* line 98 is false: the edge's next symbol is not text[pos]
symbols_differ_untested(e) == TRUE

symbols_differ(e) == TextAt(e.start + active_length) # TextAt(pos)

\* line 113: where the lower part of the cut edge starts
nxt_start_off_by_one(e) == e.start + active_length + 1

nxt_start_of(e) == e.start + active_length

\* line 108: End(start + self.active_length - 1), the end of the cut edge
split_end_off_by_one(e) == e.start + active_length

split_end(e) == e.start + active_length - 1

\* CASE 3, lines 108-120 and 122-133
Split ==
    /\ pc = "extend"
    /\ CanIndex(CurEdge)
    /\ HasChild(active_node, CurCh)
    /\ active_length < edge_length(CurE)
    /\ CanIndex(CurE.start + active_length)
    /\ symbols_differ(CurE)
    /\ LET e == CurE
           internal == Len(nodes) + 1
           leaf == Len(nodes) + 2
           nxt_start == nxt_start_of(e)
           nxt_char == TextAt(nxt_start)
           n1 == Append(Append(nodes, Node), Node)
           n2 == [n1 EXCEPT ![active_node].children[CurCh] =
                      FixedEdge(e.start, split_end(e), internal)]
           n3 == [n2 EXCEPT ![internal].children[TextAt(pos)] =
                      LeafEdge(pos, leaf)]
           n4 == [n3 EXCEPT ![internal].children[nxt_char] =
                      [e EXCEPT !.start = nxt_start]]
           n5 == IF last_created_node # None
                 THEN [n4 EXCEPT ![last_created_node].suffix_link = internal]
                 ELSE n4
       IN  /\ nodes' = n5
           /\ last_created_node' = internal
           /\ AfterExtension(n5, CurEdge)
    /\ work' = [work EXCEPT !.ext = @ + 1]
    /\ UNCHANGED <<naive, text, endv, pos, built, calls, query>>

\* ------------------------------------------------------------------ query
\* lines 172-173: length of an edge as the query computes it
query_edge_len_short(e) == EndValue(e) - e.start

query_edge_len_long(e) == EndValue(e) - e.start + 2

query_edge_len(e) == EndValue(e) - e.start + 1

\* lines 177-181: match along one edge; inb records that every index read
\* so far was within 0 .. len(text)-1
RECURSIVE MatchEdge(_, _, _, _, _, _)
MatchEdge(P, start, edge_len, i, j, inb) ==
    IF j < edge_len /\ i < Len(P)
    THEN IF ~CanIndex(start + j)
         THEN [st |-> "IndexError", i |-> i, j |-> j, inb |-> FALSE]
         ELSE IF TextAt(start + j) # P[i + 1]
              THEN [st |-> "False", i |-> i, j |-> j,
                    inb |-> inb /\ start + j >= 0]
              ELSE MatchEdge(P, start, edge_len, i + 1, j + 1,
                             inb /\ start + j >= 0)
    ELSE [st |-> "go", i |-> i, j |-> j, inb |-> inb]

\* lines 162-187: the outer loop; fuel bounds the number of iterations
RECURSIVE Traverse(_, _, _, _, _)
Traverse(P, node, i, inb, fuel) ==
    IF ~(i < Len(P)) THEN [st |-> "True", inb |-> inb]
    ELSE IF fuel = 0 THEN [st |-> "diverges", inb |-> inb]
    ELSE IF ~HasChild(node, P[i + 1]) THEN [st |-> "False", inb |-> inb]
    ELSE LET e == nodes[node].children[P[i + 1]]
             edge_len == query_edge_len(e)
             m == MatchEdge(P, e.start, edge_len, i, 0, inb)
         IN  IF m.st # "go" THEN [st |-> m.st, inb |-> m.inb]
             ELSE Traverse(P, IF m.j = edge_len THEN e.child ELSE node,
                           m.i, m.inb, fuel - 1)

\* has_substring with the test of line 156 answering False
has_substring_empty_false(P) ==
    IF Len(P) = 0 THEN [st |-> "False", inb |-> TRUE]
    ELSE Traverse(P, root, 0, TRUE, Len(P) + Len(nodes) + 1)

\* has_substring, lines 140-187
has_substring(P) ==
    IF Len(P) = 0 THEN [st |-> "True", inb |-> TRUE]
    ELSE Traverse(P, root, 0, TRUE, Len(P) + Len(nodes) + 1)

\* has_substring keeping its pattern position in self.active_length
HasSubstringCall_uses_active_length ==
    /\ pc = "done"
    /\ \E P \in Patterns :
          /\ pattern' = P
          /\ qres' = has_substring(P).st
          /\ active_length' = Len(P)
    /\ pc' = "has_substring"
    /\ UNCHANGED <<naive, text, nodes, endv, active_node, active_edge, remainder,
                   last_created_node, pos, built, calls, work>>

\* a call tree.has_substring(P) on the constructed object, up to its return
\* statement (or the exception it raises)
HasSubstringCall ==
    /\ pc = "done"
    /\ \E P \in Patterns :
          /\ pattern' = P
          /\ qres' = has_substring(P).st
    /\ pc' = "has_substring"
    /\ UNCHANGED <<naive, text, engine, pos, built, calls, work>>

\* the call's frame is popped and the caller continues
HasSubstringReturn ==
    /\ pc = "has_substring"
    /\ pattern' = <<>>
    /\ qres' = "none"
    /\ pc' = "done"
    /\ UNCHANGED <<naive, text, engine, pos, built, calls, work>>

Next ==
    \/ BuildTypeError
    \/ StartPhase
    \/ FinishBuild
    \/ NewLeaf
    \/ walk_down
    \/ Showstopper
    \/ Split
    \/ HasSubstringCall
    \/ HasSubstringReturn

Spec == Init /\ [][Next]_vars

\* ------------------------------------------- use of the object after build
\* a caller invokes the public method extend(p) on the constructed object
ExtendCall ==
    /\ pc = "done"
    /\ calls < MaxCalls
    /\ \E p \in 0..(n_text - 1) : pos' = p
    /\ endv' = end_advanced
    /\ remainder' = remainder_incremented
    /\ last_created_node' = None
    /\ calls' = calls + 1
    /\ pc' = IF remainder' > 0 THEN "extend" ELSE AfterExtend
    /\ UNCHANGED <<naive, text, nodes, active_point, built, work, query>>

\* lines 77 and 98: self.text[...] with an index outside the string
RaiseIndexError ==
    /\ pc = "extend"
    /\ \/ ~CanIndex(CurEdge)
       \/ /\ CanIndex(CurEdge)
          /\ HasChild(active_node, CurCh)
          /\ active_length < edge_length(CurE)
          /\ ~CanIndex(CurE.start + active_length)
    /\ pc' = "IndexError"
    /\ UNCHANGED <<naive, text, engine, pos, built, calls, work, query>>

NextAPI ==
    \/ Next
    \/ ExtendCall
    \/ RaiseIndexError

SpecAPI == Init /\ [][NextAPI]_vars

\* ================================================================ claims
\* T[i:j] of the source
Slice(T, i, j) == SubSeq(T, i + 1, j)

\* naive scan: P occurs as a contiguous run inside T
Occurs(P, T) ==
    \E s \in 0..(Len(T) - Len(P)) : \A k \in 1..Len(P) : T[s + k] = P[k]

Returned == pc = "has_substring"

\* C1: after the build has run all phases, has_substring(T[i:j]) returns
\* True for every 0 <= i <= j <= |T|.
C1_Completeness ==
    Returned =>
        \A i \in 0..n_text : \A j \in i..n_text :
            pattern = Slice(text, i, j) => qres = "True"

C1_Witness ==
    /\ Returned
    /\ n_text = MaxLen
    /\ pattern = Slice(text, 1, 4)
    /\ text[2] # text[3]
    /\ qres = "True"

\* C2: has_substring(P) returns False for every pattern P that does not
\* occur as a contiguous run inside the text (agreement with a naive scan).
C2_Soundness ==
    Returned /\ ~Occurs(pattern, text) => qres = "False"

C2_Witness ==
    /\ Returned
    /\ n_text >= 3
    /\ Len(pattern) = n_text + 1
    /\ SubSeq(pattern, 1, n_text) = text
    /\ qres = "False"

\* C3: the empty pattern is contained in every text, the empty text
\* included; and the empty text contains no non-empty pattern.
C3_EmptyPattern ==
    /\ Returned /\ pattern = <<>> => qres = "True"
    /\ Returned /\ text = <<>> /\ pattern # <<>> => qres = "False"

C3_Witness ==
    /\ Returned
    /\ text = <<>>
    /\ pattern = <<>>
    /\ qres = "True"

\* C4: has_substring always ends with a boolean, every text index it reads
\* is within 0 .. |T|-1, and a pattern longer than the text gives False.
C4_QueryNeverFails ==
    Returned =>
        /\ qres \in {"True", "False"}
        /\ has_substring(pattern).inb
        /\ Len(pattern) > n_text => qres = "False"

C4_Witness ==
    /\ Returned
    /\ n_text >= 2
    /\ Len(pattern) > n_text
    /\ pattern[1] = text[n_text]
    /\ \E k \in 1..Len(pattern) : \A m \in 1..n_text : pattern[k] # text[m]
    /\ qres = "False"

\* C5: a has_substring call, and its return, leave the node store, the open
\* end, the active point, remainder and last_created_node unchanged.
C5_QueryReadOnly ==
    [][(pc = "has_substring" \/ pc' = "has_substring") => UNCHANGED engine]_vars

C5_Witness ==
    /\ Returned
    /\ Len(nodes) >= 5
    /\ active_length > 0
    /\ Len(pattern) >= 2

\* C6 (as stated): once all n phases have executed, Remainder is 0.
C6_RemainderZeroWhenDone ==
    built => remainder = 0

\* the start positions of the non-empty suffixes that also occur earlier in
\* the text, i.e. that are a prefix of a longer suffix
RepeatedSuffixes ==
    {i \in 0..(n_text - 1) :
        \E j \in 0..(i - 1) :
            Slice(text, j, j + n_text - i) = Slice(text, i, n_text)}

\* C6 (amended): once all n phases have executed, Remainder is the number
\* of non-empty suffixes of the text that also occur earlier in the text;
\* it is 0 exactly when there is no such suffix.
C6_RemainderCountsRepeatedSuffixes ==
    built => remainder = Cardinality(RepeatedSuffixes)

C6_Witness ==
    /\ built
    /\ n_text = MaxLen
    /\ remainder = 2

\* C7: over a whole build the successful extensions are at most n, the
\* showstoppers at most one per phase started, the skip/count steps at most
\* 2n, and so the iterations of the extension loop at most 4n.
C7_LinearWork ==
    text # NoneText =>
        /\ work.ext <= pos + 1
        /\ work.show <= pos + 1
        /\ work.skip <= 2 * (pos + 1)
        /\ work.ext + work.show + work.skip <= 4 * n_text

C7_Witness ==
    /\ built
    /\ work.skip >= 1
    /\ work.show >= 2
    /\ work.ext >= 3

\* C8: after the build completes no operation on the object changes the
\* node store, the open end or the active point.
C8_ImmutableAfterBuild ==
    [][built => UNCHANGED <<nodes, endv, active_point>>]_vars

C10_EmptyTextIsInitialState ==
    text = <<>> =>
        /\ nodes = <<Node>>
        /\ \A c \in Sigma : ~HasChild(root, c)
        /\ active_node = root
        /\ active_edge = -1
        /\ active_length = 0
        /\ remainder = 0
        /\ last_created_node = None
        /\ endv = -1
        /\ pos = -1
        /\ pc # "extend"

C10_Witness ==
    /\ text = <<>>
    /\ pc = "done"
    /\ built

\* ---------------------------------------------------- tree observations
NodeIds == 1..Len(nodes)

\* a node created as a leaf: not the root, and without children
IsLeaf(v) == v # root /\ \A c \in Sigma : ~HasChild(v, c)

\* the (node, key) pairs of all edges in the node store
Edges == {uc \in NodeIds \X Sigma : HasChild(uc[1], uc[2])}

EdgeOf(uc) == nodes[uc[1]].children[uc[2]]

\* the symbols an edge stands for at this moment
EdgeLabel(e) == SubSeq(text, e.start + 1, EndValue(e) + 1)

\* the labels of all root-to-leaf paths below node v, each prefixed by acc
RECURSIVE LabelsFrom(_, _)
LabelsFrom(v, acc) ==
    IF \A c \in Sigma : ~HasChild(v, c)
    THEN IF v = root THEN {} ELSE {acc}
    ELSE UNION {LabelsFrom(nodes[v].children[c].child,
                           acc \o EdgeLabel(nodes[v].children[c])) :
                c \in {d \in Sigma : HasChild(v, d)}}

LeafLabels == LabelsFrom(root, <<>>)

Suffix(i) == Slice(text, i, n_text)

\* how many of the actions of the object are enabled
EnabledActions ==
    {k \in 1..9 :
        CASE k = 1 -> ENABLED BuildTypeError
          [] k = 2 -> ENABLED StartPhase
          [] k = 3 -> ENABLED FinishBuild
          [] k = 4 -> ENABLED NewLeaf
          [] k = 5 -> ENABLED walk_down
          [] k = 6 -> ENABLED Showstopper
          [] k = 7 -> ENABLED Split
          [] k = 8 -> ENABLED HasSubstringCall
          [] k = 9 -> ENABLED HasSubstringReturn}

\* C11: the build is deterministic: in every state at most one step of the
\* object can be taken (so two builds from the same text pass through the
\* same states), and what a query returns depends on the text and the
\* pattern alone.
C11_Deterministic ==
    /\ Cardinality(EnabledActions) <= 1
    /\ Returned => qres = IF Occurs(pattern, text) THEN "True" ELSE "False"

C11_Witness ==
    /\ pc = "extend"
    /\ remainder >= 2
    /\ last_created_node # None
    /\ ENABLED Split
    /\ ~ENABLED Showstopper

\* the patterns worth asking after phase pos
PatternsUpTo(k) == SeqsUpTo(Sigma, IF k < MaxPatLen THEN k ELSE MaxPatLen)

PhaseEnded == pc = "build" /\ pos >= 0

\* C17: at the end of every phase pos the traversal from the root accepts a
\* pattern iff it is a substring of T[0..pos].
C17_Online ==
    PhaseEnded =>
        \A P \in PatternsUpTo(pos + 2) :
            (has_substring(P).st = "True") <=> Occurs(P, Slice(text, 0, pos + 1))

C17_Witness ==
    /\ PhaseEnded
    /\ pos >= 2
    /\ pos + 1 < n_text
    /\ remainder >= 2
    /\ has_substring(Slice(text, 1, pos + 1)).st = "True"
    /\ has_substring(Slice(text, 0, pos + 2)).st = "False"

\* C18: when construction is done every suffix T[i:] either has a leaf whose
\* root-to-leaf label is T[i:], or has no leaf and is a prefix of a longer
\* suffix; and every leaf spells a suffix.
C18_SuffixHasLeafOrIsPrefix ==
    pc = "done" =>
        /\ \A i \in 0..(n_text - 1) :
              (Suffix(i) \in LeafLabels) <=> (i \notin RepeatedSuffixes)
        /\ \A l \in LeafLabels : \E i \in 0..(n_text - 1) : l = Suffix(i)

C18_Witness ==
    /\ pc = "done"
    /\ n_text = MaxLen
    /\ Cardinality(RepeatedSuffixes) = 2
    /\ Cardinality(LeafLabels) = 3

\* C19: the open end starts at -1, only the start of a phase changes it,
\* and then by exactly +1; during and after phase pos it is pos, and after
\* the build it is n-1.
C19_OpenEnd ==
    [][/\ endv = pos
       /\ endv' = pos'
       /\ pos = -1 => endv = -1
       /\ endv' # endv => (pc = "build" /\ endv' = endv + 1)
       /\ built' => endv' = n_text - 1]_vars

C19_Witness ==
    /\ pc = "extend"
    /\ pos = 3
    /\ endv = 3
    /\ work.ext >= 2

\* C20: every edge that leads to a leaf holds the shared open end, also the
\* lower part of a leaf edge cut by a split, so its effective end is the
\* open end; and the start of a phase lengthens every leaf edge by one
\* symbol without changing the node store.
C20_LeafEdgesShareOpenEnd ==
    [][/\ \A uc \in Edges :
             IsLeaf(EdgeOf(uc).child) =>
                 EdgeOf(uc).shared /\ EndValue(EdgeOf(uc)) = endv
       /\ endv' # endv =>
             /\ nodes' = nodes
             /\ \A uc \in Edges :
                   IsLeaf(EdgeOf(uc).child) =>
                       (EndValue(EdgeOf(uc)))' = EndValue(EdgeOf(uc)) + 1]_vars

C20_Witness ==
    /\ pc = "extend"
    /\ \E uc \in Edges :
          /\ uc[1] # root
          /\ IsLeaf(EdgeOf(uc).child)
          /\ EdgeOf(uc).start < pos
          /\ EndValue(EdgeOf(uc)) = endv

\* ============================================== matchers on the raw text
\* src/kmp.py, src/boyer_moore.py, src/horspool.py, src/shift_or.py: pure
\* functions of (text, pattern); str and list are 0-indexed in the source.
MaxSearchText == 6
MaxSearchPat == 4
MaxK == 2

SearchSigma == {"a", "b"}
SearchTexts == SeqsUpTo(SearchSigma, MaxSearchText)
SearchPatterns == SeqsUpTo(SearchSigma, MaxSearchPat)

\* s[i] of a Python str or list
At(s, i) == s[i + 1]
\* s[i] = v
Put(s, i, v) == [s EXCEPT ![i + 1] = v]
\* [v] * m
Repeat(v, m) == [x \in 1..m |-> v]
\* list(range(n))
Range(n) == [x \in 1..n |-> x - 1]
\* d[key] = v and d.get(key, default) of a dict
DictSet(d, key, v) ==
    [x \in (DOMAIN d) \cup {key} |-> IF x = key THEN v ELSE d[x]]
DictGet(d, key, default) == IF key \in DOMAIN d THEN d[key] ELSE default
Min(a, b) == IF a < b THEN a ELSE b
Max(a, b) == IF a > b THEN a ELSE b

\* ------------------------------------------------------------ src/kmp.py
\* the while loop of compute_lps
RECURSIVE lps_loop(_, _, _, _)
lps_loop(P, lps, length, i) ==
    IF ~(i < Len(P)) THEN lps
    ELSE IF At(P, i) = At(P, length)
         THEN lps_loop(P, Put(lps, i, length + 1), length + 1, i + 1)
    ELSE IF length # 0
         THEN lps_loop(P, lps, At(lps, length - 1), i)
    ELSE lps_loop(P, Put(lps, i, 0), length, i + 1)

compute_lps(P) == lps_loop(P, Repeat(0, Len(P)), 0, 1)

\* the pattern index after a full match, restarting from the longest border
\* of the first symbol only
kmp_resume_from_first(lps, j) == At(lps, 0)
\* line 80: j = lps[j - 1]
kmp_resume(lps, j) == At(lps, j - 1)

\* the while loop of kmp_search
RECURSIVE kmp_loop(_, _, _, _, _, _)
kmp_loop(T, P, lps, i, j, matches) ==
    IF ~(i < Len(T)) THEN matches
    ELSE IF At(T, i) = At(P, j)
         THEN IF j + 1 = Len(P)
              THEN kmp_loop(T, P, lps, i + 1, kmp_resume(lps, j + 1),
                            Append(matches, (i + 1) - (j + 1)))
              ELSE kmp_loop(T, P, lps, i + 1, j + 1, matches)
    ELSE IF j # 0
         THEN kmp_loop(T, P, lps, i, At(lps, j - 1), matches)
    ELSE kmp_loop(T, P, lps, i + 1, j, matches)

kmp_search(T, P) ==
    IF P = <<>> THEN Range(Len(T) + 1)
    ELSE kmp_loop(T, P, compute_lps(P), 0, 0, <<>>)

\* ---------------------------------------------------- src/boyer_moore.py
RECURSIVE bad_character_loop(_, _, _)
bad_character_loop(P, table, i) ==
    IF ~(i < Len(P)) THEN table
    ELSE bad_character_loop(P, DictSet(table, At(P, i), i), i + 1)

build_bad_character_table(P) == bad_character_loop(P, <<>>, 0)

\* the inner while of build_suffixes: the value of g when it stops
RECURSIVE suffix_scan(_, _, _)
suffix_scan(P, g, f) ==
    IF g >= 0 /\ At(P, g) = At(P, g + Len(P) - 1 - f)
    THEN suffix_scan(P, g - 1, f)
    ELSE g

\* the for loop of build_suffixes
RECURSIVE suffixes_loop(_, _, _, _, _)
suffixes_loop(P, suffix, g, f, i) ==
    LET m == Len(P) IN
    IF i < 0 THEN suffix
    ELSE IF i > g /\ At(suffix, i + m - 1 - f) < i - g
         THEN suffixes_loop(P, Put(suffix, i, At(suffix, i + m - 1 - f)),
                            g, f, i - 1)
    ELSE LET g1 == suffix_scan(P, Min(g, i), i)
         IN  suffixes_loop(P, Put(suffix, i, i - g1), g1, i, i - 1)

build_suffixes(P) ==
    LET m == Len(P)
    IN  suffixes_loop(P, Put(Repeat(0, m), m - 1, m), m - 1, 0, m - 2)

\* the while of case 1 in build_good_suffix_table: shift and j afterwards
RECURSIVE good_suffix_fill(_, _, _, _)
good_suffix_fill(shift, j, i, m) ==
    IF j < m - 1 - i
    THEN good_suffix_fill(IF At(shift, j) = m THEN Put(shift, j, m - 1 - i)
                          ELSE shift, j + 1, i, m)
    ELSE [shift |-> shift, j |-> j]

\* case 1: the suffix matches a prefix of the pattern
RECURSIVE good_suffix_case1(_, _, _, _, _)
good_suffix_case1(suffix, shift, j, i, m) ==
    IF i < 0 THEN shift
    ELSE IF At(suffix, i) = i + 1
         THEN LET r == good_suffix_fill(shift, j, i, m)
              IN  good_suffix_case1(suffix, r.shift, r.j, i - 1, m)
    ELSE good_suffix_case1(suffix, shift, j, i - 1, m)

\* case 2: the suffix occurs inside the pattern
RECURSIVE good_suffix_case2(_, _, _, _)
good_suffix_case2(suffix, shift, i, m) ==
    IF ~(i < m - 1) THEN shift
    ELSE good_suffix_case2(suffix,
                           Put(shift, m - 1 - At(suffix, i), m - 1 - i),
                           i + 1, m)

build_good_suffix_table(P) ==
    LET m == Len(P)
        suffix == build_suffixes(P)
    IN  good_suffix_case2(suffix,
                          good_suffix_case1(suffix, Repeat(m, m), 0, m - 1, m),
                          0, m)

\* the right-to-left comparison at alignment s: the value of j when it stops
RECURSIVE compare_backwards(_, _, _, _)
compare_backwards(T, P, s, j) ==
    IF j >= 0 /\ At(P, j) = At(T, s + j)
    THEN compare_backwards(T, P, s, j - 1)
    ELSE j

\* a mismatch shift taken from the bad-character rule alone
mismatch_shift_bad_character_only(bc_shift, gs_shift) == bc_shift
\* line 122: s += max(bc_shift, gs_shift)
mismatch_shift(bc_shift, gs_shift) == Max(bc_shift, gs_shift)

\* the while loop of boyer_moore_search.  advances records that every shift
\* taken was at least 1; the loop is cut at the first shift that is not,
\* where the source would revisit an alignment.
RECURSIVE boyer_moore_loop(_, _, _, _, _, _)
boyer_moore_loop(T, P, bad, good, s, matches) ==
    LET m == Len(P)
        j == compare_backwards(T, P, s, m - 1)
        d == IF j < 0 THEN At(good, 0)
             ELSE mismatch_shift(j - DictGet(bad, At(T, s + j), -1),
                                 At(good, j))
        found == IF j < 0 THEN Append(matches, s) ELSE matches
    IN  IF ~(s <= Len(T) - m) THEN [matches |-> matches, advances |-> TRUE]
        ELSE IF d < 1 THEN [matches |-> found, advances |-> FALSE]
        ELSE boyer_moore_loop(T, P, bad, good, s + d, found)

boyer_moore_search(T, P) ==
    IF Len(P) = 0 THEN [matches |-> Range(Len(T) + 1), advances |-> TRUE]
    ELSE boyer_moore_loop(T, P, build_bad_character_table(P),
                          build_good_suffix_table(P), 0, <<>>)

\* ------------------------------------------------------- src/horspool.py
\* line 20: {ch: m for ch in set(pattern)}
shift_table_default(P) == [c \in {At(P, i) : i \in 0..(Len(P) - 1)} |-> Len(P)]

\* the for loop of build_shift_table
RECURSIVE shift_table_loop(_, _, _)
shift_table_loop(P, table, i) ==
    IF ~(i < Len(P) - 1) THEN table
    ELSE shift_table_loop(P, DictSet(table, At(P, i), Len(P) - 1 - i), i + 1)

build_shift_table(P) == shift_table_loop(P, shift_table_default(P), 0)

\* line 70: i += m, the shift after a full match
full_match_shift(P) == Len(P)

\* the while loop of horspool_search
RECURSIVE horspool_loop(_, _, _, _, _)
horspool_loop(T, P, shift, i, matches) ==
    LET m == Len(P)
        j == compare_backwards(T, P, i, m - 1)
    IN  IF ~(i <= Len(T) - m) THEN matches
        ELSE IF j < 0
             THEN horspool_loop(T, P, shift, i + full_match_shift(P),
                                Append(matches, i))
        ELSE horspool_loop(T, P, shift,
                           i + DictGet(shift, At(T, i + m - 1), m), matches)

horspool_search(T, P) ==
    IF Len(P) = 0 THEN Range(Len(T) + 1)
    ELSE horspool_loop(T, P, build_shift_table(P), 0, <<>>)

\* ------------------------------------------------------- src/shift_or.py
\* a Python int used as a bit vector is the set of its 1-bit positions:
\* x << 1, x & y, x | y and 1 << i
MaxBits == 31
Shl(x) == {b + 1 : b \in x}
BitAnd(x, y) == x \cap y
BitOr(x, y) == x \cup y
Bit(i) == {i}

\* lines 31-37: the mask of character c
char_mask(P, c) == {i \in 0..(Len(P) - 1) : At(P, i) = c}

\* lines 53-71: the state vector after reading a symbol with mask ch_mask
shift_or_step(old_R, ch_mask, k) ==
    [x \in 1..(k + 1) |->
        LET j == x - 1
            shifted == BitAnd(Shl(At(old_R, j)), ch_mask)
            insertion == At(old_R, j - 1)
            deletion == Shl(At(old_R, j - 1))
            substitution == Shl(At(old_R, j - 1))
        IN  BitOr(IF j > 0
                  THEN BitOr(BitOr(BitOr(shifted, insertion), deletion),
                             substitution)
                  ELSE shifted,
                  Bit(0))]

\* the for loop over enumerate(text)
RECURSIVE shift_or_loop(_, _, _, _, _, _)
shift_or_loop(T, P, k, R, i, matches) ==
    IF ~(i < Len(T)) THEN matches
    ELSE LET R1 == shift_or_step(R, char_mask(P, At(T, i)), k)
         IN  shift_or_loop(T, P, k, R1, i + 1,
                           IF BitAnd(At(R1, k), Bit(Len(P))) # {}
                           THEN Append(matches, i - Len(P) + 1)
                           ELSE matches)

\* the list returned, or "ValueError"
shift_or_approx(T, P, k) ==
    IF Len(P) = 0 THEN Range(Len(T) + 1)
    ELSE IF Len(P) > MaxBits THEN "ValueError"
    ELSE shift_or_loop(T, P, k, Put(Repeat({}, k + 1), 0, Bit(0)), 0, <<>>)

\* ----------------------------------------------- calls of the matchers
InitSearch ==
    /\ text \in SearchTexts
    /\ pattern \in SearchPatterns
    /\ pc = "idle"
    /\ qres = "none"
    /\ nodes = <<Node>>
    /\ endv = -1
    /\ active_node = root
    /\ active_edge = -1
    /\ active_length = 0
    /\ remainder = 0
    /\ last_created_node = None
    /\ pos = -1
    /\ built = FALSE
    /\ calls = 0
    /\ work = [ext |-> 0, skip |-> 0, show |-> 0]
    /\ naive = <<>>

KmpSearchCall ==
    /\ pc = "idle"
    /\ qres' = [matches |-> kmp_search(text, pattern)]
    /\ pc' = "kmp_search"
    /\ UNCHANGED <<naive, text, engine, pos, built, calls, work, pattern>>

BoyerMooreSearchCall ==
    /\ pc = "idle"
    /\ qres' = boyer_moore_search(text, pattern)
    /\ pc' = "boyer_moore_search"
    /\ UNCHANGED <<naive, text, engine, pos, built, calls, work, pattern>>

HorspoolSearchCall ==
    /\ pc = "idle"
    /\ qres' = [matches |-> horspool_search(text, pattern)]
    /\ pc' = "horspool_search"
    /\ UNCHANGED <<naive, text, engine, pos, built, calls, work, pattern>>

ShiftOrApproxCall ==
    /\ pc = "idle"
    /\ \E k \in 0..MaxK :
          qres' = [matches |-> shift_or_approx(text, pattern, k), k |-> k]
    /\ pc' = "shift_or_approx"
    /\ UNCHANGED <<naive, text, engine, pos, built, calls, work, pattern>>

\* the caller takes the list and may call another matcher on the same input
SearchReturn ==
    /\ pc \in {"kmp_search", "boyer_moore_search", "horspool_search",
               "shift_or_approx"}
    /\ qres' = "none"
    /\ pc' = "idle"
    /\ UNCHANGED <<naive, text, engine, pos, built, calls, work, pattern>>

NextSearch ==
    \/ KmpSearchCall
    \/ BoyerMooreSearchCall
    \/ HorspoolSearchCall
    \/ ShiftOrApproxCall
    \/ SearchReturn

SpecSearch == InitSearch /\ [][NextSearch]_vars

\* the naive scan of T for P: every s with T[s:s+m] = P
OccSet(T, P) ==
    {s \in 0..(Len(T) - Len(P)) : Slice(T, s, s + Len(P)) = P}

\* the elements of a set of integers as an increasing list
RECURSIVE Sorted(_)
Sorted(S) ==
    IF S = {} THEN <<>>
    ELSE LET lo == CHOOSE x \in S : \A y \in S : x <= y
         IN  <<lo>> \o Sorted(S \ {lo})

Elems(l) == {l[x] : x \in DOMAIN l}
Increasing(l) == \A x, y \in DOMAIN l : x < y => l[x] < l[y]

\* C12: kmp_search returns exactly the indices s with text[s:s+m] = pattern,
\* in increasing order and without duplicates, overlapping occurrences
\* included; for the empty pattern it returns 0..len(text).
C12_KmpAllOccurrences ==
    pc = "kmp_search" =>
        /\ Elems(qres.matches) = OccSet(text, pattern)
        /\ Increasing(qres.matches)
        /\ qres.matches = Sorted(OccSet(text, pattern))
        /\ pattern = <<>> => qres.matches = Range(n_text + 1)

\* three overlapping occurrences, found after falling back through lps
C12_Witness ==
    /\ pc = "kmp_search"
    /\ Len(pattern) >= 3
    /\ Len(qres.matches) >= 3
    /\ \E x \in DOMAIN qres.matches :
          x > 1 /\ qres.matches[x] - qres.matches[x - 1] < Len(pattern) - 1

\* C13: for every pattern of length >= 1, boyer_moore_search returns the
\* list of the naive scan, which is the list kmp_search returns, overlapping
\* occurrences included, and every shift of the search loop is at least 1.
C13_BoyerMooreAgrees ==
    pc = "boyer_moore_search" /\ Len(pattern) >= 1 =>
        /\ qres.matches = Sorted(OccSet(text, pattern))
        /\ qres.matches = kmp_search(text, pattern)
        /\ qres.advances

\* overlapping occurrences of a pattern with two distinct symbols, between
\* alignments that mismatch
C13_Witness ==
    /\ pc = "boyer_moore_search"
    /\ Len(pattern) >= 3
    /\ Cardinality(Elems(pattern)) = 2
    /\ Len(qres.matches) >= 2
    /\ qres.matches[2] - qres.matches[1] < Len(pattern)
    /\ qres.matches[1] > 0
    /\ qres.advances

\* C14: horspool_search returns every index s with text[s:s+m] = pattern,
\* including occurrences that overlap an earlier match.
C14_HorspoolAllOccurrences ==
    pc = "horspool_search" =>
        Elems(qres.matches) = OccSet(text, pattern)

\* C15: for a pattern of 1..31 symbols, shift_or_approx reports every exact
\* occurrence of the pattern, for k = 0 and for every k >= 0.
C15_ExactOccurrencesReported ==
    pc = "shift_or_approx" /\ Len(pattern) >= 1 /\ Len(pattern) <= MaxBits =>
        OccSet(text, pattern) \subseteq Elems(qres.matches)

\* ======================================= src/suffix_trees.py, construction
\* SuffixTreeNode(): children = {}, suffix_index = -1.  An edge is the tuple
\* (start, end, child); nodes live in the arena naive, the root first.
SuffixTreeNode == [children |-> <<>>, suffix_index |-> -1]

NaiveEdge(start, end, child) == [start |-> start, end |-> end, child |-> child]

\* lines 54-56: the number of symbols matched along the edge
RECURSIVE match_along(_, _, _, _)
match_along(start, i, edge_len, j) ==
    IF j < edge_len /\ i + j < n_text /\ TextAt(start + j) = TextAt(i + j)
    THEN match_along(start, i, edge_len, j + 1)
    ELSE j

\* lines 44-46 and 77-79: a new leaf hung under node by the edge (i, n-1)
add_leaf(tr, node, i, suffix_start) ==
    Append([tr EXCEPT ![node].children =
                DictSet(@, TextAt(i), NaiveEdge(i, n_text - 1, Len(tr) + 1))],
           [SuffixTreeNode EXCEPT !.suffix_index = suffix_start])

\* lines 65-82: the edge (start, end, child) under node is cut after j symbols
split_edge(tr, node, ch, i, j, suffix_start) ==
    LET edge == tr[node].children[ch]
        split_node == Len(tr) + 1
        cut == Append([tr EXCEPT ![node].children =
                          DictSet(@, ch, NaiveEdge(edge.start,
                                                   edge.start + j - 1,
                                                   split_node))],
                      [SuffixTreeNode EXCEPT !.children =
                          DictSet(<<>>, TextAt(edge.start + j),
                                  NaiveEdge(edge.start + j, edge.end,
                                            edge.child))])
    IN  IF i + j < n_text
        THEN add_leaf(cut, split_node, i + j, suffix_start)
        ELSE [cut EXCEPT ![split_node].suffix_index = suffix_start]

\* the while loop of insert_suffix, from node at text position i
RECURSIVE insert_from(_, _, _, _)
insert_from(tr, node, i, suffix_start) ==
    IF ~(i < n_text) THEN tr
    ELSE LET ch == TextAt(i)
             edge == tr[node].children[ch]
             edge_len == edge.end - edge.start + 1
             j == match_along(edge.start, i, edge_len, 0)
         IN  IF ch \notin DOMAIN tr[node].children
             THEN add_leaf(tr, node, i, suffix_start)
             ELSE IF j = edge_len
                  THEN insert_from(tr, edge.child, i + edge_len, suffix_start)
             ELSE split_edge(tr, node, ch, i, j, suffix_start)

insert_suffix(tr, suffix_start) == insert_from(tr, root, suffix_start, suffix_start)

\* the suffixes build would insert if it also started from the last symbol
naive_build_range_from_minus_one == [x \in 1..(n_text + 1) |-> x - 2]
\* line 97: range(len(self.text))
naive_build_range == Range(n_text)

\* __init__: self.root = SuffixTreeNode(), then build()
InitNaive ==
    /\ text \in Texts
    /\ naive = <<SuffixTreeNode>>
    /\ pos = 0
    /\ pc = "naive_build"
    /\ qres = "none"
    /\ pattern = <<>>
    /\ nodes = <<Node>>
    /\ endv = -1
    /\ active_node = root
    /\ active_edge = -1
    /\ active_length = 0
    /\ remainder = 0
    /\ last_created_node = None
    /\ built = FALSE
    /\ calls = 0
    /\ work = [ext |-> 0, skip |-> 0, show |-> 0]

\* one iteration of build: insert_suffix(i) for the next i of the range;
\* self.text[i] on line 39 raises IndexError outside the string
InsertSuffix ==
    /\ pc = "naive_build"
    /\ pos < Len(naive_build_range)
    /\ LET i == At(naive_build_range, pos)
       IN  IF i < n_text /\ ~CanIndex(i)
           THEN /\ pc' = "IndexError"
                /\ UNCHANGED naive
           ELSE /\ naive' = insert_suffix(naive, i)
                /\ pc' = pc
    /\ pos' = pos + 1
    /\ UNCHANGED <<text, engine, built, calls, work, query>>

\* the range is exhausted: build and the constructor return
NaiveBuildDone ==
    /\ pc = "naive_build"
    /\ ~(pos < Len(naive_build_range))
    /\ pc' = "naive_done"
    /\ UNCHANGED <<naive, text, engine, pos, built, calls, work, query>>

NextNaive ==
    \/ InsertSuffix
    \/ NaiveBuildDone

SpecNaive == InitNaive /\ [][NextNaive]_vars

\* C16: after NaiveSuffixTree(text) has inserted all n suffixes of a text of
\* n >= 1 symbols, the tree has at most 2n nodes, the root included.
C16_NaiveLinearNodes ==
    pc = "naive_done" /\ n_text >= 1 => Len(naive) <= 2 * n_text

\* a text whose insertions split an edge and add a leaf as often as they can
C16_Witness ==
    /\ pc = "naive_done"
    /\ n_text >= 4
    /\ Len(naive) = 2 * n_text - 1
    /\ Cardinality({v \in 1..Len(naive) : DOMAIN naive[v].children = {}})
           = n_text

\* ====================================== the construction on longer texts
\* SuffixTree(text) for texts long enough for the active point to pass
\* through internal nodes; no queries are made.
MaxBuildLen == 8
BuildTexts == SeqsUpTo(Sigma, MaxBuildLen)

InitBuild ==
    /\ text \in BuildTexts
    /\ nodes = <<Node>>
    /\ endv = -1
    /\ active_node = root
    /\ active_edge = -1
    /\ active_length = 0
    /\ remainder = 0
    /\ last_created_node = None
    /\ pos = -1
    /\ pc = "build"
    /\ built = FALSE
    /\ calls = 0
    /\ work = [ext |-> 0, skip |-> 0, show |-> 0]
    /\ pattern = <<>>
    /\ qres = "none"
    /\ naive = <<>>

NextBuild ==
    \/ StartPhase
    \/ FinishBuild
    \/ NewLeaf
    \/ walk_down
    \/ Showstopper
    \/ Split

SpecBuild == InitBuild /\ [][NextBuild]_vars

\* ================================================ edges, ends and counters
\* the edge that leads into node v (every node but the root has one)
InEdge(v) == EdgeOf(CHOOSE uc \in Edges : EdgeOf(uc).child = v)
HasInEdge(v) == \E uc \in Edges : EdgeOf(uc).child = v
Internal(v) == v # root /\ ~IsLeaf(v)
Leaves == {v \in NodeIds : IsLeaf(v)}

\* the step just taken, told by what it counted
SplitStep == Len(nodes') = Len(nodes) + 2
NewLeafStep == Len(nodes') = Len(nodes) + 1
SkipStep == work'.skip = work.skip + 1
ShowstopperStep == work'.show = work.show + 1
PhaseStartStep == pos' = pos + 1

\* C21: the edge into an internal node carries an End of its own, and from
\* the split that made it on no phase start and no extension changes that
\* End's value or makes it the open end again (a later split of the edge
\* leaves the End with the lower part, which still leads into that node).
C21_ClosedEndStaysFixed ==
    [][/\ \A v \in NodeIds : Internal(v) => ~InEdge(v).shared
       /\ \A v \in NodeIds :
             (HasInEdge(v) /\ ~InEdge(v).shared) =>
                 /\ ~(InEdge(v).shared)'
                 /\ (EndValue(InEdge(v)))' = EndValue(InEdge(v))
                 /\ (InEdge(v).value)' = InEdge(v).value]_vars

\* a closed edge that has been cut again, two phases after it was closed
C21_Witness ==
    /\ pc = "extend"
    /\ \E v \in NodeIds :
          /\ Internal(v)
          /\ InEdge(v).start > 0
          /\ EndValue(InEdge(v)) + 2 <= endv
          /\ \E u \in NodeIds : Internal(u) /\ InEdge(v) \in
                 {nodes[u].children[c] : c \in Sigma}

\* C22 as stated: the end of the edge closed by a split is the value the
\* open end has at that instant.
C22_ClosedAtOpenEndValue ==
    [][SplitStep =>
          LET cut == nodes'[active_node].children[CurCh]
          IN  (IF cut.shared THEN endv' ELSE cut.value) = endv]_vars

\* C22: the end of the edge closed by a split is start + ActiveLength - 1,
\* the last symbol above the cut, which lies at least two positions before
\* the open end's value at that instant; the value is stored, not shared.
C22_ClosedAtSplitPoint ==
    [][SplitStep =>
          LET cut == nodes'[active_node].children[CurCh]
          IN  /\ ~cut.shared
              /\ cut.value = CurE.start + active_length - 1
              /\ cut.value <= endv - 2
              /\ endv' = endv]_vars

\* a split about to cut a leaf edge that has grown for two phases or more
C22_Witness ==
    /\ pc = "extend"
    /\ ENABLED Split
    /\ CurE.shared
    /\ active_length >= 2
    /\ CurE.start + active_length + 1 < endv

\* C23: during the construction every edge has 0 <= start <= end <= n-1
\* with end dereferenced, so every edge label has at least one symbol.
C23_EdgesNonEmpty ==
    pc \in {"build", "extend", "done", "has_substring"} =>
        \A uc \in Edges :
            /\ 0 <= EdgeOf(uc).start
            /\ EdgeOf(uc).start <= EndValue(EdgeOf(uc))
            /\ EndValue(EdgeOf(uc)) <= n_text - 1
            /\ edge_length(EdgeOf(uc)) >= 1

\* edges of one symbol, of several, closed and open, at the last phase
C23_Witness ==
    /\ pc = "extend"
    /\ pos = n_text - 1
    /\ \E uc \in Edges : ~EdgeOf(uc).shared /\ edge_length(EdgeOf(uc)) = 1
    /\ \E uc \in Edges : ~EdgeOf(uc).shared /\ edge_length(EdgeOf(uc)) >= 2
    /\ \E uc \in Edges : EdgeOf(uc).shared /\ edge_length(EdgeOf(uc)) = 1

\* C24: during the construction Remainder and Active Length are never
\* negative, and Remainder never exceeds the number of phases started so
\* far: Remainder <= pos + 1 <= n.
C24_CountersInRange ==
    pc \in {"build", "extend", "done", "has_substring"} =>
        /\ remainder >= 0
        /\ active_length >= 0
        /\ remainder <= pos + 1
        /\ pos + 1 <= n_text

\* Remainder as large as it gets after the first phase, deep in an edge
C24_Witness ==
    /\ pc = "extend"
    /\ pos >= 3
    /\ remainder = pos
    /\ active_length >= 2

\* C25: Remainder goes up by one exactly at a phase start and down by one
\* exactly at a successful extension (new leaf or split), each of which adds
\* one leaf; a skip/count step and the showstopper leave it alone.  So at
\* every moment Remainder = (pos + 1) - number of leaves.
C25_RemainderAccounting ==
    [][/\ PhaseStartStep <=> remainder' = remainder + 1
       /\ (NewLeafStep \/ SplitStep) <=> remainder' = remainder - 1
       /\ (NewLeafStep \/ SplitStep) =>
             Cardinality(Leaves') = Cardinality(Leaves) + 1
       /\ (SkipStep \/ ShowstopperStep) => remainder' = remainder
       /\ remainder' - remainder \in {-1, 0, 1}
       /\ text # NoneText => remainder = (pos + 1) - Cardinality(Leaves)
       /\ text # NoneText => remainder' = (pos' + 1) - Cardinality(Leaves')
      ]_vars

\* a phase has ended by a showstopper after extensions and a skip, with
\* suffixes still pending
C25_Witness ==
    /\ pc = "build"
    /\ pos >= 3
    /\ work.ext >= 3
    /\ work.skip >= 1
    /\ work.show >= 2
    /\ remainder >= 1
    /\ remainder = (pos + 1) - Cardinality(Leaves)

\* the string spelled from the root down to node v
RECURSIVE PathLabel(_)
PathLabel(v) ==
    IF v = root THEN <<>>
    ELSE LET uc == CHOOSE x \in Edges : EdgeOf(x).child = v
         IN  PathLabel(uc[1]) \o EdgeLabel(EdgeOf(uc))

\* the string position the active point denotes: the path to Active Node
\* followed by Active Length symbols from Active Edge
ActiveString ==
    PathLabel(active_node)
        \o (IF active_length = 0 THEN <<>>
            ELSE Slice(text, active_edge, active_edge + active_length))

\* Active Length reaches the end of the edge selected at the active node
SkipDue ==
    /\ pc = "extend"
    /\ HasChild(active_node, CurCh)
    /\ active_length >= edge_length(CurE)

\* C26: when Active Length is at least the length L of the selected edge,
\* the step taken is the skip: Active Node becomes the edge's child, Active
\* Length drops by L, Active Edge rises by L; Remainder, the open end, the
\* marker and all nodes are untouched, the extension is retried, and the
\* active point denotes the same string as before.
C26_SkipCount ==
    [][/\ SkipDue => SkipStep
       /\ SkipStep =>
             /\ SkipDue
             /\ active_node' = CurE.child
             /\ active_length' = active_length - edge_length(CurE)
             /\ active_edge' = active_edge + edge_length(CurE)
             /\ UNCHANGED <<remainder, endv, last_created_node, nodes, pos>>
             /\ pc' = "extend"
             /\ ActiveString' = ActiveString]_vars

\* a skip that leaves symbols to go below the child
C26_Witness ==
    /\ SkipDue
    /\ active_length > edge_length(CurE)
    /\ remainder >= 2

\* the selected edge goes on with the symbol of this phase
ShowstopperDue ==
    /\ pc = "extend"
    /\ HasChild(active_node, CurCh)
    /\ active_length < edge_length(CurE)
    /\ TextAt(CurE.start + active_length) = TextAt(pos)

\* C27: when the symbol at edge.start + ActiveLength equals the symbol at
\* pos, the step adds exactly 1 to Active Length, points a pending marked
\* node's suffix link at Active Node and clears the marker, creates no node
\* and no edge, keeps Remainder and Active Node, and ends the phase: control
\* is back in build with the suffixes still pending.
C27_Showstopper ==
    [][/\ ShowstopperDue => ShowstopperStep
       /\ ShowstopperStep =>
             /\ ShowstopperDue
             /\ active_length' = active_length + 1
             /\ nodes' = IF last_created_node # None
                         THEN [nodes EXCEPT
                                 ![last_created_node].suffix_link = active_node]
                         ELSE nodes
             /\ last_created_node' = None
             /\ Len(nodes') = Len(nodes)
             /\ \A v \in NodeIds : nodes'[v].children = nodes[v].children
             /\ remainder' = remainder
             /\ remainder' >= 1
             /\ active_node' = active_node
             /\ endv' = endv
             /\ pos' = pos
             /\ pc' = "build"]_vars

\* a showstopper below the root with a marked node waiting for its link
C27_Witness ==
    /\ ShowstopperDue
    /\ last_created_node # None
    /\ active_node # root
    /\ remainder >= 2

\* the selected edge goes on with another symbol than that of this phase
SplitDue ==
    /\ pc = "extend"
    /\ HasChild(active_node, CurCh)
    /\ active_length < edge_length(CurE)
    /\ TextAt(CurE.start + active_length) # TextAt(pos)

ChildKeys(ns, v) == {c \in Sigma : ns[v].children[c].child # None}

\* C28: when the symbols differ the step creates exactly one internal node
\* and one leaf.  The original edge keeps its start and key, ends at
\* start + ActiveLength - 1 and leads to the internal node, whose children
\* are exactly two, under distinct keys: the rest of the original edge
\* (start + ActiveLength, the original end, the original child, whose
\* subtree is untouched) and the leaf edge (pos, open end).  The two parts
\* of the original edge spell the original label.
C28_Split ==
    [][/\ SplitDue => SplitStep
       /\ SplitStep =>
             LET e == CurE
                 internal == Len(nodes) + 1
                 leaf == Len(nodes) + 2
                 upper == nodes'[active_node].children[CurCh]
                 rest_key == TextAt(e.start + active_length)
                 lower == nodes'[internal].children[rest_key]
                 fresh == nodes'[internal].children[TextAt(pos)]
             IN  /\ SplitDue
                 /\ upper.start = e.start
                 /\ ~upper.shared
                 /\ upper.value = e.start + active_length - 1
                 /\ upper.value - upper.start + 1 = active_length
                 /\ upper.child = internal
                 /\ ChildKeys(nodes', active_node) = ChildKeys(nodes, active_node)
                 /\ \A c \in Sigma \ {CurCh} :
                       nodes'[active_node].children[c]
                         = nodes[active_node].children[c]
                 /\ ChildKeys(nodes', internal) = {rest_key, TextAt(pos)}
                 /\ Cardinality(ChildKeys(nodes', internal)) = 2
                 /\ lower = [e EXCEPT !.start = e.start + active_length]
                 /\ fresh = [start |-> pos, shared |-> TRUE, value |-> -1,
                             child |-> leaf]
                 /\ ChildKeys(nodes', leaf) = {}
                 /\ \A v \in NodeIds \ {active_node} :
                       nodes'[v].children = nodes[v].children
                 /\ endv' = endv
                 /\ SubSeq(text, upper.start + 1, upper.value + 1)
                       \o SubSeq(text, lower.start + 1, EndValue(lower) + 1)
                     = EdgeLabel(e)]_vars

\* a split of a closed edge below the root
C28_Witness ==
    /\ SplitDue
    /\ active_node # root
    /\ ~CurE.shared
    /\ active_length >= 2
    /\ ~IsLeaf(CurE.child)

\* Case A is due: no edge of the active node starts with the symbol looked up
NewLeafDue ==
    /\ pc = "extend"
    /\ ~HasChild(active_node, CurCh)

\* C29: in every state every children entry key -> (start, end, child)
\* has text[start] = key, so the edges leaving one node start with distinct
\* symbols; the leaf edge (pos, open end) of Case A is filed under
\* text[active_edge], which is text[pos].
C29_FirstSymbolKeying ==
    /\ \A uc \in Edges : TextAt(EdgeOf(uc).start) = uc[2]
    /\ \A uc, wd \in Edges :
          (uc[1] = wd[1] /\ TextAt(EdgeOf(uc).start) = TextAt(EdgeOf(wd).start))
              => uc = wd
    /\ NewLeafDue => (active_length = 0 /\ CurCh = TextAt(pos))

\* Case A is due at an internal node reached over a suffix link or a skip
C29_Witness ==
    /\ NewLeafDue
    /\ active_node # root
    /\ pos >= 3
    /\ Cardinality(ChildKeys(nodes, active_node)) = 2

\* C30: after a successful extension (Case A or split) Remainder is one
\* less and the active point moves: from the root with Active Length > 0,
\* Active Length drops by 1, Active Edge becomes pos - Remainder + 1 (the
\* new Remainder) and Active Node stays the root; otherwise Active Node
\* becomes its suffix-link target, or the root if the link is unset, and
\* Active Edge and Active Length stay as the extension used them.
C30_ActivePointUpdate ==
    [][(NewLeafStep \/ SplitStep) =>
          /\ NewLeafDue \/ SplitDue
          /\ remainder' = remainder - 1
          /\ nodes'[active_node].suffix_link = nodes[active_node].suffix_link
          /\ IF active_node = root /\ active_length > 0
             THEN /\ active_length' = active_length - 1
                  /\ active_edge' = pos - remainder' + 1
                  /\ active_edge' = pos - remainder + 2
                  /\ active_node' = root
             ELSE /\ active_node' =
                        IF nodes[active_node].suffix_link # None
                        THEN nodes[active_node].suffix_link
                        ELSE root
                  /\ active_edge' = CurEdge
                  /\ active_length' = active_length]_vars

\* a split below the root whose node has a suffix link to another internal
\* node, with Active Length to carry over
C30_Witness ==
    /\ SplitDue
    /\ active_node # root
    /\ nodes[active_node].suffix_link \notin {None, root}
    /\ active_length >= 1
    /\ remainder >= 3

\* ============================================================ suffix links
\* the suffix link of v is assigned in this step
LinkAssigned(v) == nodes'[v].suffix_link # nodes[v].suffix_link
AllInternalLinked == \A v \in NodeIds : Internal(v) => nodes[v].suffix_link # None

\* C31 as stated: a new internal node has no suffix link, and a link is
\* only ever set to the internal node created next in the same phase, or to
\* the root.
C31_LinkToNextInternalOrRoot ==
    [][/\ SplitStep => nodes'[Len(nodes) + 1].suffix_link = None
       /\ \A v \in NodeIds :
             LinkAssigned(v) =>
                 /\ nodes[v].suffix_link = None
                 /\ \/ SplitStep /\ nodes'[v].suffix_link = Len(nodes) + 1
                    \/ nodes'[v].suffix_link = root]_vars

\* C31: a new internal node has no suffix link and becomes the marked node.
\* The next extension of the same phase sets the link, once and for all: to
\* the new internal node if it is a split, to Active Node (the root or an
\* older internal node) if it is Case A or the showstopper.  No phase ends
\* with an internal node left without a link.
C31_LinkToNextInternalOrActiveNode ==
    [][/\ SplitStep =>
             /\ nodes'[Len(nodes) + 1].suffix_link = None
             /\ last_created_node' = Len(nodes) + 1
       /\ \A v \in NodeIds :
             LinkAssigned(v) =>
                 /\ nodes[v].suffix_link = None
                 /\ v = last_created_node
                 /\ Internal(v)
                 /\ pos' = pos
                 /\ IF SplitStep
                    THEN nodes'[v].suffix_link = Len(nodes) + 1
                    ELSE /\ NewLeafStep \/ ShowstopperStep
                         /\ nodes'[v].suffix_link = active_node
       /\ (last_created_node # None
             /\ (SplitStep \/ NewLeafStep \/ ShowstopperStep))
             => LinkAssigned(last_created_node)
       /\ pc' = "build" => AllInternalLinked']_vars

\* Case A is due at an older internal node while a marked node waits
C31_Witness ==
    /\ NewLeafDue
    /\ last_created_node # None
    /\ active_node # root
    /\ nodes[active_node].suffix_link # None

\* the node the construction moves to from v on line 129-133
LinkTarget(v) ==
    IF nodes[v].suffix_link # None THEN nodes[v].suffix_link ELSE root

PhaseBoundary == pc \in {"build", "done"} /\ text # NoneText

\* C32: at the end of every phase, for every internal node v other than the
\* root with path label x.alpha, the node used as v's suffix-link target has
\* path label alpha; a link is unset only on nodes whose label has length 1.
\* Links already set are right in the middle of a phase too.
C32_SuffixLinkCorrect ==
    /\ PhaseBoundary =>
          \A v \in NodeIds : Internal(v) =>
              /\ PathLabel(v) # <<>>
              /\ PathLabel(LinkTarget(v)) = Tail(PathLabel(v))
              /\ nodes[v].suffix_link = None => Len(PathLabel(v)) = 1
    /\ pc = "extend" =>
          \A v \in NodeIds : (Internal(v) /\ nodes[v].suffix_link # None) =>
              PathLabel(nodes[v].suffix_link) = Tail(PathLabel(v))

\* links to the root and links between internal nodes of depth 3 and 2
C32_Witness ==
    /\ PhaseBoundary
    /\ \E v \in NodeIds :
          /\ Internal(v)
          /\ Len(PathLabel(v)) = 3
          /\ Internal(nodes[v].suffix_link)
          /\ Internal(nodes[nodes[v].suffix_link].suffix_link)
    /\ \E v \in NodeIds : Internal(v) /\ nodes[v].suffix_link = root

\* v is the internal node of a split of the current phase: the leaf made
\* with it (lines 109-112) hangs under it by an edge that starts at pos
CreatedThisPhase(v) ==
    /\ v + 1 \in NodeIds
    /\ IsLeaf(v + 1)
    /\ nodes[v].children[TextAt(pos)] = LeafEdge(pos, v + 1)

\* C33: the marker is unset at every phase boundary and when the first
\* extension of a phase runs; it is only ever set to the node a split has
\* just created, so a marked node, and with it every node that is given a
\* suffix link, was created earlier in the same phase.
C33_MarkerIsPhaseLocal ==
    [][/\ PhaseStartStep => last_created_node' = None
       /\ pc \in {"build", "done"} => last_created_node = None
       /\ pc' \in {"build", "done"} => last_created_node' = None
       /\ (last_created_node' # None /\ last_created_node' # last_created_node)
             => (SplitStep /\ last_created_node' = Len(nodes) + 1)
       /\ last_created_node # None => CreatedThisPhase(last_created_node)
       /\ \A v \in NodeIds :
             LinkAssigned(v) =>
                 /\ v = last_created_node
                 /\ CreatedThisPhase(v)
                 /\ pos' = pos]_vars

\* a second split of a phase is due, with internal nodes of earlier phases
\* in the tree
C33_Witness ==
    /\ SplitDue
    /\ last_created_node # None
    /\ CreatedThisPhase(last_created_node)
    /\ \E v \in NodeIds :
          Internal(v) /\ ~CreatedThisPhase(v) /\ v < last_created_node

\* ============================================================== tree shape
ChildrenOf(ns, v) == {ns[v].children[c].child : c \in ChildKeys(ns, v)}

\* the nodes reached from the set S in at most k steps along children
RECURSIVE ReachWithin(_, _, _)
ReachWithin(ns, S, k) ==
    IF k = 0 THEN S
    ELSE ReachWithin(ns, S \cup UNION {ChildrenOf(ns, v) : v \in S}, k - 1)

Reachable(ns) == ReachWithin(ns, {root}, Len(ns))

\* the number of edges on the way from the root down to v
RECURSIVE Depth(_)
Depth(v) ==
    IF v = root THEN 0
    ELSE Depth((CHOOSE uc \in Edges : EdgeOf(uc).child = v)[1]) + 1

\* C34: in every state every node but the root is the child of exactly one
\* edge and the root of none, and every node is reached from the root (so
\* following children never cycles); no step removes a node, takes a child
\* key from a node or makes a reachable node unreachable.
C34_TreeShapeAdditive ==
    [][/\ \A v \in NodeIds \ {root} :
             Cardinality({uc \in Edges : EdgeOf(uc).child = v}) = 1
       /\ \A uc \in Edges : EdgeOf(uc).child # root
       /\ Reachable(nodes) = NodeIds
       /\ Reachable(nodes') = 1..Len(nodes')
       /\ Len(nodes') >= Len(nodes)
       /\ \A v \in NodeIds : ChildKeys(nodes, v) \subseteq ChildKeys(nodes', v)
       /\ Reachable(nodes) \subseteq Reachable(nodes')]_vars

\* a split is due two edges below the root in a tree of nine nodes or more
C34_Witness ==
    /\ SplitDue
    /\ Len(nodes) >= 9
    /\ Depth(CurE.child) >= 2

\* ============================================================= termination
\* the constructor keeps running: build's for loop and extend's while loop
\* take their next step as long as there is one
SpecBuildFair == InitBuild /\ [][NextBuild]_vars /\ WF_vars(NextBuild)

\* C35: build runs one phase for each pos = 0, 1, ..., n-1 in this order (pos
\* only ever goes up by one, between two phases, and the constructor returns
\* after phase n-1), and every phase terminates: the extension loop is left
\* with Remainder 0 or by the showstopper break, and the build ends.
C35_PhasesTerminate ==
    /\ [][/\ pos' \in {pos, pos + 1}
          /\ pos' = pos + 1 => pc = "build" /\ pos' <= n_text - 1
          /\ (pc = "extend" /\ pc' # "extend") =>
                /\ pc' = "build"
                /\ remainder' = 0 \/ ShowstopperStep
          /\ pc' = "done" => pc = "build" /\ pos = n_text - 1]_vars
    /\ (pc = "extend") ~> (pc = "build")
    /\ <>(pc = "done" /\ pos = n_text - 1)

\* the last phase of a text of six symbols or more has ended by the
\* showstopper after skips, and the constructor has returned
C35_Witness ==
    /\ pc = "done"
    /\ pos = n_text - 1
    /\ pos >= 5
    /\ remainder >= 2
    /\ work.skip >= 2
    /\ work.show >= 2

\* ====================================================== phase-end invariants
\* the symbols read from node v down the edge keyed by text[ae], al symbols
\* in all, passing on to the child whenever an edge is used up (the pending
\* skip/count); <<"?">> when the edge to follow does not exist
RECURSIVE DownLabel(_, _, _)
DownLabel(v, ae, al) ==
    IF al = 0 THEN <<>>
    ELSE IF ~CanIndex(ae) \/ ~HasChild(v, TextAt(ae)) THEN <<"?">>
    ELSE LET e == nodes[v].children[TextAt(ae)]
             L == edge_length(e)
         IN  IF al >= L
             THEN EdgeLabel(e) \o DownLabel(e.child, ae + L, al - L)
             ELSE SubSeq(EdgeLabel(e), 1, al)

\* C36: when a phase pos has ended, the string depth of Active Node plus
\* Active Length is Remainder and the active point spells the pending suffix
\* T[pos-Remainder+1 .. pos]; with Active Length > 0, Active Edge lies in
\* [0, pos], Active Node has an edge keyed by text[Active Edge], and the first
\* Active Length symbols below it (through any pending skip/count) are
\* T[pos-Active Length+1 .. pos]; with Remainder 0 the active point is
\* (root, 0).
C36_ActivePointValid ==
    (PhaseBoundary /\ pos >= 0) =>
        /\ Len(PathLabel(active_node)) + active_length = remainder
        /\ ActiveString = Slice(text, pos - remainder + 1, pos + 1)
        /\ active_length > 0 =>
              /\ active_edge \in 0..pos
              /\ HasChild(active_node, TextAt(active_edge))
              /\ DownLabel(active_node, active_edge, active_length)
                    = Slice(text, pos - active_length + 1, pos + 1)
        /\ remainder = 0 => active_node = root /\ active_length = 0

\* a phase has ended below the root with a skip/count still pending
C36_Witness ==
    /\ PhaseBoundary
    /\ pos >= 0
    /\ active_node # root
    /\ active_length >= 1
    /\ HasChild(active_node, TextAt(active_edge))
    /\ active_length >= edge_length(nodes[active_node].children[TextAt(active_edge)])

\* C37: when a phase pos has ended the leaves stand one-to-one for the
\* suffix starts 0 .. pos-Remainder: the leaf paths spell exactly the strings
\* T[i .. pos] for these i, no two leaves spell the same one, and there are
\* pos+1-Remainder leaves; the leaf made by the extension that ran with
\* Remainder = r spells T[pos-r+1 .. pos].
C37_LeafSuffixCorrespondence ==
    [][/\ PhaseBoundary =>
             /\ {PathLabel(v) : v \in Leaves}
                   = {Slice(text, i, pos + 1) : i \in 0..(pos - remainder)}
             /\ Cardinality({PathLabel(v) : v \in Leaves}) = Cardinality(Leaves)
             /\ Cardinality(Leaves) = pos + 1 - remainder
       /\ (NewLeafStep \/ SplitStep) =>
             \A v \in {Len(nodes')} :
                 /\ v \in Leaves'
                 /\ PathLabel(v)' = Slice(text, pos - remainder + 1, pos + 1)]_vars

\* a phase has ended with suffixes pending in a tree whose leaves hang at
\* different depths
C37_Witness ==
    /\ PhaseBoundary
    /\ pos >= 5
    /\ remainder >= 2
    /\ Cardinality(Leaves) = pos + 1 - remainder
    /\ \E v \in Leaves : Depth(v) >= 3
    /\ \E v \in Leaves : Depth(v) = 1

\* C38: an extension that finds no edge keyed by text[Active Edge] at Active
\* Node runs with Active Length 0, so Active Edge is pos and the new leaf is
\* keyed by text[pos]; an extension that reaches the split has
\* 1 <= Active Length < the length of the selected edge.
C38_CaseAAtExplicitNode ==
    [][/\ NewLeafDue => active_length = 0 /\ CurEdge = pos
       /\ NewLeafStep =>
             /\ active_length = 0
             /\ active_edge' = pos
             /\ ~HasChild(active_node, TextAt(pos))
             /\ nodes'[active_node].children[TextAt(pos)]
                   = LeafEdge(pos, Len(nodes'))
       /\ SplitDue => active_length >= 1
       /\ SplitStep =>
             /\ active_length >= 1
             /\ active_length < edge_length(CurE)]_vars

\* a new leaf is due at an internal node reached over a suffix link, after
\* a split deep in an edge in the same phase
C38_Witness ==
    /\ NewLeafDue
    /\ active_node # root
    /\ active_length = 0
    /\ last_created_node # None
    /\ \E v \in NodeIds : Internal(v) /\ Len(PathLabel(v)) >= 2

\* the internal nodes other than the root
Internals == {v \in NodeIds : Internal(v)}

\* C39: between two phases every internal node other than the root has at
\* least two children, and a node created as a leaf never gets a child; so
\* for a text of length n >= 1 the tree has at most n leaves, at most n-1
\* internal nodes besides the root, and at most 2n nodes.
C39_Compact ==
    [][/\ PhaseBoundary =>
             \A v \in Internals : Cardinality(ChildKeys(nodes, v)) >= 2
       /\ (PhaseBoundary /\ n_text >= 1) =>
             /\ Cardinality(Leaves) <= n_text
             /\ Cardinality(Internals) <= n_text - 1
             /\ Len(nodes) <= 2 * n_text
       /\ (NewLeafStep \/ SplitStep) => ChildKeys(nodes', Len(nodes')) = {}
       /\ \A v \in Leaves : ChildKeys(nodes', v) = {}]_vars

\* the build of a text of six symbols or more has ended with a leaf for
\* every suffix and as many internal nodes as a tree of n leaves can hold
C39_Witness ==
    /\ pc = "done"
    /\ n_text >= 6
    /\ Cardinality(Leaves) = n_text
    /\ Cardinality(Internals) = n_text - 2
    /\ Len(nodes) = 2 * n_text - 1

\* ================================================= the two trees compared
MaxEquivLen == 5
MaxEquivPat == 4
EquivTexts == SeqsUpTo(Sigma, MaxEquivLen)
EquivPatterns == SeqsUpTo(Sigma, MaxEquivPat)

\* NaiveSuffixTree.has_substring, the inner while loop: match along one edge
RECURSIVE naive_match_edge(_, _, _, _, _)
naive_match_edge(P, start, edge_len, i, j) ==
    IF j < edge_len /\ i < Len(P)
    THEN IF ~CanIndex(start + j) THEN [st |-> "IndexError", i |-> i, j |-> j]
         ELSE IF TextAt(start + j) # P[i + 1]
              THEN [st |-> "False", i |-> i, j |-> j]
              ELSE naive_match_edge(P, start, edge_len, i + 1, j + 1)
    ELSE [st |-> "go", i |-> i, j |-> j]

\* NaiveSuffixTree.has_substring, the outer while loop; fuel bounds the
\* number of iterations
RECURSIVE naive_traverse(_, _, _, _, _)
naive_traverse(tr, P, node, i, fuel) ==
    IF ~(i < Len(P)) THEN "True"
    ELSE IF fuel = 0 THEN "diverges"
    ELSE IF P[i + 1] \notin DOMAIN tr[node].children THEN "False"
    ELSE LET edge == tr[node].children[P[i + 1]]
             edge_len == edge.end - edge.start + 1
             m == naive_match_edge(P, edge.start, edge_len, i, 0)
         IN  IF m.st # "go" THEN m.st
             ELSE naive_traverse(tr, P,
                                 IF m.j = edge_len THEN edge.child ELSE node,
                                 m.i, fuel - 1)

naive_has_substring(tr, P) == naive_traverse(tr, P, root, 0, Len(P) + Len(tr) + 1)

\* SuffixTree(T) is under construction; NaiveSuffixTree(T) is still to be made
InitEquiv ==
    /\ text \in EquivTexts
    /\ nodes = <<Node>>
    /\ endv = -1
    /\ active_node = root
    /\ active_edge = -1
    /\ active_length = 0
    /\ remainder = 0
    /\ last_created_node = None
    /\ pos = -1
    /\ pc = "build"
    /\ built = FALSE
    /\ calls = 0
    /\ work = [ext |-> 0, skip |-> 0, show |-> 0]
    /\ pattern = <<>>
    /\ qres = "none"
    /\ naive = <<>>

\* NaiveSuffixTree(T) for the same text: __init__ makes the root and enters
\* build
NaiveConstruct ==
    /\ pc = "done"
    /\ naive = <<>>
    /\ naive' = <<SuffixTreeNode>>
    /\ pos' = 0
    /\ pc' = "naive_build"
    /\ UNCHANGED <<text, engine, built, calls, work, query>>

\* both trees are asked for the same pattern
BothHasSubstringCall ==
    /\ pc = "naive_done"
    /\ built
    /\ \E P \in EquivPatterns :
          /\ pattern' = P
          /\ qres' = <<has_substring(P).st, naive_has_substring(naive, P)>>
    /\ pc' = "compare"
    /\ UNCHANGED <<naive, text, engine, pos, built, calls, work>>

\* both calls have returned
BothHasSubstringReturn ==
    /\ pc = "compare"
    /\ pattern' = <<>>
    /\ qres' = "none"
    /\ pc' = "naive_done"
    /\ UNCHANGED <<naive, text, engine, pos, built, calls, work>>

NextEquiv ==
    \/ StartPhase
    \/ FinishBuild
    \/ NewLeaf
    \/ walk_down
    \/ Showstopper
    \/ Split
    \/ NaiveConstruct
    \/ InsertSuffix
    \/ NaiveBuildDone
    \/ BothHasSubstringCall
    \/ BothHasSubstringReturn

SpecEquiv == InitEquiv /\ [][NextEquiv]_vars

\* C40: for every text T and pattern P the tree of the linear-time
\* construction and the tree of the naive construction give the same answer
\* to has_substring(P), a boolean, also when a suffix of T is a prefix of
\* another suffix and when T or P is empty.
C40_QueryEquivalent ==
    pc = "compare" =>
        /\ qres[1] = qres[2]
        /\ qres[1] \in {"True", "False"}

\* both trees have answered True for a suffix of two symbols or more that is
\* also a prefix of a longer suffix and so ends at no leaf of the linear-time
\* tree
C40_Witness ==
    /\ pc = "compare"
    /\ remainder >= 2
    /\ pattern = Slice(text, n_text - remainder, n_text)
    /\ qres = <<"True", "True">>
====
